---- MODULE Spec2Model ----
(***************************************************************************)
(* Model of the rate limiter service (package service): the Service        *)
(* struct, Acquire with its token-bucket and leaky-bucket paths over the   *)
(* local sync.Map and over the Redis sorted set, Status, Metrics, and the  *)
(* limit registry (SetLimit, getLimitForKey) behind the mutex.             *)
(*                                                                         *)
(* Spec: sequential Acquire and Status.  SpecPair: a local and a shared    *)
(* service fed the same calls.  SpecConc: concurrent Acquire on the local  *)
(* token bucket.  SpecService: every method, with Redis failing and        *)
(* recovering.  SpecOutage: the shared token bucket with Redis failing and *)
(* recovering.  SpecRegistry: concurrent SetLimit, Status and Acquire.     *)
(*                                                                         *)
(* Time is counted in ticks.  TicksPerMicro ticks make one microsecond,    *)
(* the resolution that fmt.Sprintf("%f", ...) keeps of a timestamp; the    *)
(* local path compares time.Time values at full (tick) resolution.        *)
(***************************************************************************)
EXTENDS Integers, Sequences, FiniteSets, TLC

\* ---------------------------------------------------------------- bounds
MaxTime == 5
MaxCalls == 4
MaxLimit == 2
MaxWindowMicros == 2
NumProcs == 2
MaxRegistryOps == 2
MaxConcTime == 3
MaxOutageCalls == 2
MaxServiceCalls == 1
MaxServiceTime == 1

\* ------------------------------------------------------ program constants
TicksPerMicro == 3
TokenBucket == 0
LeakyBucket == 1

\* The calls of the claims are calls on one key.
Keys == {"k1"}
Procs == 1..NumProcs
Algorithms == {TokenBucket, LeakyBucket, 2}
Windows == {TicksPerMicro * m : m \in 1..MaxWindowMicros}

\* The inputs of Acquire: a map without "key", a map whose "key" is not a
\* string, and a map whose "key" is a string (possibly empty).
Inputs ==
    {[kind |-> "absent", key |-> ""], [kind |-> "nonstring", key |-> ""],
     [kind |-> "string", key |-> ""]}
    \cup {[kind |-> "string", key |-> k] : k \in Keys}

VARIABLES
    useRedis,            \* Service.useRedis (redisClient is non-nil iff TRUE)
    algorithm,           \* Service.algorithm
    limit,               \* Service.limit, the global default
    window,              \* Service.window, in ticks
    limits,              \* Service.limits, a map key -> limit
    userCalls,           \* Service.userCalls, a map key -> sequence of times
    zset,                \* Redis: key -> sorted set, a set of [member, score]
    expireAt,            \* Redis: key -> time at which the key expires
    successfulAcquires,  \* Service.successfulAcquires
    failedAcquires,      \* Service.failedAcquires
    now,                 \* the clock read by time.Now()
    log,                 \* the Acquire calls made with a valid key, in order
    ncalls,              \* number of Acquire calls made
    last,                \* the most recent call and what it returned
    twin,                \* a second Service, on the shared store, run side by side
    procs,               \* the goroutines running Acquire concurrently
    redisUp,             \* whether the Redis server answers
    mu                   \* Service.mu: 0 when free, else the goroutine holding it

config == <<useRedis, algorithm, limit, window>>
store == <<userCalls, zset, expireAt>>
counters == <<successfulAcquires, failedAcquires>>
env == <<redisUp, mu>>
vars == <<useRedis, algorithm, limit, window, limits, userCalls, zset, expireAt,
          successfulAcquires, failedAcquires, now, log, ncalls, last, twin,
          procs, redisUp, mu>>

\* ------------------------------------------------------------- helpers
NoExpiry == -1
EmptyMap == [k \in {} |-> 0]

\* Go integer division truncates toward zero.
GoDiv(a, b) ==
    IF (a >= 0) = (b > 0)
    THEN (IF a >= 0 THEN a ELSE -a) \div (IF b > 0 THEN b ELSE -b)
    ELSE -((IF a >= 0 THEN a ELSE -a) \div (IF b > 0 THEN b ELSE -b))

\* ------------------------------------------------------ limit registry
\* getLimitForKey: the per-key override if present, else the global default.
getLimitForKey(key) ==
    IF key \in DOMAIN limits THEN limits[key] ELSE limit

\* ---------------------------------------------------- local call history
\* sync.Map.LoadOrStore(key, []time.Time{}): the map after the call.
LoadOrStore(uc, key) ==
    IF key \in DOMAIN uc THEN uc ELSE uc @@ (key :> <<>>)

\* sync.Map.Store(key, calls)
StoreCalls(uc, key, calls) ==
    [k \in DOMAIN uc \cup {key} |-> IF k = key THEN calls ELSE uc[k]]

\* sync.Map.Load(key), a nil value read as the empty history.
LoadCalls(uc, key) ==
    IF key \in DOMAIN uc THEN uc[key] ELSE <<>>

\* The loop "remove calls outside the window": keeps t with now.Sub(t) < window.
RecentCalls(calls, t, w) ==
    LET InWindow(c) == t - c < w IN SelectSeq(calls, InWindow)

\* Variant: the limit test written as len(recentCalls) > limit.
DecideTokenBucketOffByOne(calls, t, lim, w) ==
    LET recent == RecentCalls(calls, t, w) IN
    IF Len(recent) > lim
    THEN [allowed |-> FALSE, error |-> "rate limit exceeded", panic |-> FALSE,
          stored |-> FALSE, calls |-> calls]
    ELSE [allowed |-> TRUE, error |-> "", panic |-> FALSE,
          stored |-> TRUE, calls |-> Append(recent, t)]

\* Variant: a denied attempt is appended and stored as well.
DecideTokenBucketRecordsDenied(calls, t, lim, w) ==
    LET recent == RecentCalls(calls, t, w) IN
    IF Len(recent) >= lim
    THEN [allowed |-> FALSE, error |-> "rate limit exceeded", panic |-> FALSE,
          stored |-> TRUE, calls |-> Append(recent, t)]
    ELSE [allowed |-> TRUE, error |-> "", panic |-> FALSE,
          stored |-> TRUE, calls |-> Append(recent, t)]

\* Variant: the limit test written as len(recentCalls)+1 >= limit.
DecideTokenBucketDeniesEarly(calls, t, lim, w) ==
    LET recent == RecentCalls(calls, t, w) IN
    IF Len(recent) + 1 >= lim
    THEN [allowed |-> FALSE, error |-> "rate limit exceeded", panic |-> FALSE,
          stored |-> FALSE, calls |-> calls]
    ELSE [allowed |-> TRUE, error |-> "", panic |-> FALSE,
          stored |-> TRUE, calls |-> Append(recent, t)]

\* The local decision of acquireTokenBucket on the loaded history: deny when
\* len(recentCalls) >= limit (nothing is stored), else append now and store.
DecideTokenBucket(calls, t, lim, w) ==
    LET recent == RecentCalls(calls, t, w) IN
    IF Len(recent) >= lim
    THEN [allowed |-> FALSE, error |-> "rate limit exceeded", panic |-> FALSE,
          stored |-> FALSE, calls |-> calls]
    ELSE [allowed |-> TRUE, error |-> "", panic |-> FALSE,
          stored |-> TRUE, calls |-> Append(recent, t)]

\* acquireTokenBucket, local path, run without interruption.
TokenBucketLocal(uc, key, t, lim, w) ==
    LET uc1 == LoadOrStore(uc, key)
        d == DecideTokenBucket(uc1[key], t, lim, w) IN
    [allowed |-> d.allowed, error |-> d.error, panic |-> FALSE,
     userCalls |-> IF d.stored THEN StoreCalls(uc1, key, d.calls) ELSE uc1]

\* Variant: the spacing is measured from the oldest retained call.
DecideLeakyBucketFromFirst(calls, t, interval, w) ==
    LET recent == RecentCalls(calls, t, w) IN
    IF Len(recent) = 0 \/ t - recent[1] >= interval
    THEN [allowed |-> TRUE, error |-> "", panic |-> FALSE,
          stored |-> TRUE, calls |-> Append(recent, t)]
    ELSE [allowed |-> FALSE, error |-> "leaky bucket: rate limit exceeded",
          panic |-> FALSE, stored |-> FALSE, calls |-> calls]

\* The decision of acquireLeakyBucket on the loaded history.
DecideLeakyBucket(calls, t, interval, w) ==
    LET recent == RecentCalls(calls, t, w) IN
    IF Len(recent) = 0 \/ t - recent[Len(recent)] >= interval
    THEN [allowed |-> TRUE, error |-> "", panic |-> FALSE,
          stored |-> TRUE, calls |-> Append(recent, t)]
    ELSE [allowed |-> FALSE, error |-> "leaky bucket: rate limit exceeded",
          panic |-> FALSE, stored |-> FALSE, calls |-> calls]

\* interval := s.window / time.Duration(limit)
LeakyInterval(lim, w) == GoDiv(w, lim)

\* acquireLeakyBucket, run without interruption.  The division by a zero
\* limit panics before the history is touched.
LeakyBucketLocal(uc, key, t, lim, w) ==
    IF lim = 0
    THEN [allowed |-> FALSE, error |-> "panic: integer divide by zero",
          panic |-> TRUE, userCalls |-> uc]
    ELSE LET uc1 == LoadOrStore(uc, key)
             d == DecideLeakyBucket(uc1[key], t, LeakyInterval(lim, w), w) IN
         [allowed |-> d.allowed, error |-> d.error, panic |-> FALSE,
          userCalls |-> IF d.stored THEN StoreCalls(uc1, key, d.calls) ELSE uc1]

\* ------------------------------------------------------- shared (Redis) store
\* fmt.Sprintf("%f", x): six decimals, i.e. x rounded to the nearest
\* microsecond.  The string is represented by its number of microseconds.
FormatFloat(x) == (2 * x + TicksPerMicro) \div (2 * TicksPerMicro)

\* Redis reading a formatted number back as a score, in ticks.
ParseFloat(m) == m * TicksPerMicro

\* The sorted set of a key as a command issued at time t finds it: an
\* expired key is gone.
LiveSet(z, ex, key, t) ==
    IF ex[key] # NoExpiry /\ t >= ex[key] THEN {} ELSE z[key]

LiveExpiry(ex, key, t) ==
    IF ex[key] # NoExpiry /\ t >= ex[key] THEN NoExpiry ELSE ex[key]

\* ZREMRANGEBYSCORE key lo hi: drops the entries with lo <= score <= hi.
ZRemRangeByScore(set, lo, hi) ==
    {e \in set : ~(lo <= e.score /\ e.score <= hi)}

\* ZADD key score member: an existing member only has its score updated.
ZAdd(set, score, member) ==
    {e \in set : e.member # member} \cup {[member |-> member, score |-> score]}

ZCard(set) == Cardinality(set)

\* acquireTokenBucket, Redis path: the pipeline ZREMRANGEBYSCORE, ZADD,
\* ZCARD, EXPIRE executed as one transaction, then the test count > limit.
TokenBucketRedis(z, ex, key, t, lim, w) ==
    LET windowStart == t - w
        s0 == LiveSet(z, ex, key, t)
        s1 == ZRemRangeByScore(s0, 0, ParseFloat(FormatFloat(windowStart)))
        s2 == ZAdd(s1, t, FormatFloat(t))
        count == ZCard(s2) IN
    [allowed |-> ~(count > lim),
     error |-> IF count > lim THEN "rate limit exceeded" ELSE "",
     panic |-> FALSE,
     zset |-> [z EXCEPT ![key] = s2],
     expireAt |-> [ex EXCEPT ![key] = t + w]]

\* statusRedis: the pipeline ZREMRANGEBYSCORE, ZCARD, then
\* tokensLeft = max(0, limit - count).  A key left empty is deleted.
StatusRedis(z, ex, key, t, lim, w) ==
    LET windowStart == t - w
        s0 == LiveSet(z, ex, key, t)
        s1 == ZRemRangeByScore(s0, 0, ParseFloat(FormatFloat(windowStart)))
        left == lim - ZCard(s1) IN
    [tokens |-> IF left < 0 THEN 0 ELSE left,
     zset |-> [z EXCEPT ![key] = s1],
     expireAt |-> [ex EXCEPT ![key] =
                      IF s1 = {} THEN NoExpiry ELSE LiveExpiry(ex, key, t)]]

\* Variant: the history is counted without dropping the expired calls.
StatusLocalUnpruned(uc, key, t, lim, w) ==
    LET left == lim - Len(LoadCalls(uc, key)) IN
    IF left < 0 THEN 0 ELSE left

\* Status, local branch: tokens_left = max(0, limit - len(recentCalls)).
StatusLocal(uc, key, t, lim, w) ==
    LET left == lim - Len(RecentCalls(LoadCalls(uc, key), t, w)) IN
    IF left < 0 THEN 0 ELSE left

\* key, ok := input["key"].(string); the request is served iff ok && key != "".
ValidKey(input) == input.kind = "string" /\ input.key # ""

\* ------------------------------------------------------------ whole calls
\* Variant: the early return forgets the counter.
MissingKeyUncounted(base) ==
    [base EXCEPT !.error = "missing or invalid key"]

\* The early return of Acquire on a missing, non-string or empty key:
\* failedAcquires++ under the mutex, nothing else is touched.
MissingKey(base) ==
    [base EXCEPT !.error = "missing or invalid key", !.fail = 1]

\* Variant: the shared store is used whenever the server answers.
OnRedisWhenUp(redis) == redisUp

\* The backend test s.useRedis && s.redisClient != nil (the client is
\* non-nil exactly when useRedis is set).
OnRedis(redis) == redis

\* Variant: a failed transaction lets the request through.
RedisErrorFailsOpen(base) ==
    [base EXCEPT !.allowed = TRUE, !.succ = 1]

\* acquireTokenBucket when pipe.Exec (or zcard.Result) returns an error:
\* failedAcquires++ and the reply "redis error"; the local history is not
\* consulted.  A server that does not answer has applied nothing.
RedisError(base) ==
    [base EXCEPT !.error = "redis error", !.fail = 1]

\* Service.Acquire run without interruption at time t on the stores
\* (uc, z, ex), with lim the result of getLimitForKey and up telling whether
\* the Redis server answers: what it returns and what it leaves behind.
\* succ and fail are the increments of successfulAcquires and failedAcquires.
AcquireWith(input, t, redis, up, alg, uc, z, ex, lim) ==
    LET base == [allowed |-> FALSE, error |-> "", panic |-> FALSE,
                 userCalls |-> uc, zset |-> z, expireAt |-> ex,
                 succ |-> 0, fail |-> 0] IN
    IF ~ValidKey(input)
    THEN MissingKey(base)
    ELSE IF alg = TokenBucket
    THEN IF OnRedis(redis)
         THEN IF ~up
              THEN RedisError(base)
              ELSE LET r == TokenBucketRedis(z, ex, input.key, t, lim, window) IN
                   [base EXCEPT !.allowed = r.allowed, !.error = r.error,
                                !.zset = r.zset, !.expireAt = r.expireAt,
                                !.succ = IF r.allowed THEN 1 ELSE 0,
                                !.fail = IF r.allowed THEN 0 ELSE 1]
         ELSE LET r == TokenBucketLocal(uc, input.key, t, lim, window) IN
              [base EXCEPT !.allowed = r.allowed, !.error = r.error,
                           !.userCalls = r.userCalls,
                           !.succ = IF r.allowed THEN 1 ELSE 0,
                           !.fail = IF r.allowed THEN 0 ELSE 1]
    ELSE IF alg = LeakyBucket
    THEN LET r == LeakyBucketLocal(uc, input.key, t, lim, window) IN
         [base EXCEPT !.allowed = r.allowed, !.error = r.error,
                      !.panic = r.panic, !.userCalls = r.userCalls,
                      !.succ = IF r.allowed THEN 1 ELSE 0,
                      !.fail = IF r.allowed \/ r.panic THEN 0 ELSE 1]
    ELSE [base EXCEPT !.error = "unknown algorithm"]

\* Service.Acquire with the Redis server answering and the limit looked up
\* in the registry.
AcquireCall(input, t, redis, alg, uc, z, ex) ==
    AcquireWith(input, t, redis, TRUE, alg, uc, z, ex,
                getLimitForKey(input.key))

\* Service.Status run without interruption at time t, with lim the result
\* of getLimitForKey and up telling whether the Redis server answers.  When
\* statusRedis returns an error the local branch computes the reply.
StatusWith(key, t, redis, up, uc, z, ex, lim) ==
    IF OnRedis(redis) /\ up
    THEN LET r == StatusRedis(z, ex, key, t, lim, window) IN
         [tokens |-> r.tokens, limit |-> lim, source |-> "redis",
          zset |-> r.zset, expireAt |-> r.expireAt]
    ELSE [tokens |-> StatusLocal(uc, key, t, lim, window), limit |-> lim,
          source |-> "", zset |-> z, expireAt |-> ex]

\* Service.Status with the Redis server answering and the limit looked up
\* in the registry.
StatusCall(key, t, redis, uc, z, ex) ==
    StatusWith(key, t, redis, TRUE, uc, z, ex, getLimitForKey(key))

NoCall ==
    [op |-> "none", input |-> [kind |-> "absent", key |-> ""], t |-> 0,
     allowed |-> FALSE, error |-> "", panic |-> FALSE, tokens |-> 0,
     source |-> "", limit |-> 0, metrics |-> <<0, 0>>]

NoTwin ==
    [zset |-> [k \in Keys |-> {}], expireAt |-> [k \in Keys |-> NoExpiry],
     successfulAcquires |-> 0, failedAcquires |-> 0, out |-> <<>>]

\* A goroutine: its position, the call it runs (op, key, arg), what it has
\* read so far (t, limit, calls, reg, allowed), the number n of calls it has
\* made, and seen, the limits a lookup in progress may legitimately return.
IdleProc ==
    [pc |-> "idle", key |-> "", t |-> 0, limit |-> 0, calls |-> <<>>,
     reg |-> 0, allowed |-> FALSE, op |-> "", arg |-> 0, seen |-> {}, n |-> 0]

\* ------------------------------------------------ sequential specification
Init ==
    /\ useRedis \in BOOLEAN
    /\ algorithm \in Algorithms
    /\ limit \in 1..MaxLimit
    /\ window \in Windows
    /\ limits = EmptyMap
    /\ userCalls = EmptyMap
    /\ zset = [k \in Keys |-> {}]
    /\ expireAt = [k \in Keys |-> NoExpiry]
    /\ successfulAcquires = 0
    /\ failedAcquires = 0
    /\ now = 0
    /\ log = <<>>
    /\ ncalls = 0
    /\ last = NoCall
    /\ twin = NoTwin
    /\ procs = [p \in Procs |-> IdleProc]
    /\ redisUp = useRedis
    /\ mu = 0

\* One Acquire call, from entry to return; time.Now() reads t.  The calls
\* that reach an algorithm are kept in log.
AcquireBody(input, t) ==
    /\ ncalls < MaxCalls
    /\ LET r == AcquireWith(input, t, useRedis, redisUp, algorithm,
                            userCalls, zset, expireAt,
                            getLimitForKey(input.key)) IN
       /\ userCalls' = r.userCalls
       /\ zset' = r.zset
       /\ expireAt' = r.expireAt
       /\ successfulAcquires' = successfulAcquires + r.succ
       /\ failedAcquires' = failedAcquires + r.fail
       /\ log' = IF ValidKey(input)
                 THEN Append(log, [key |-> input.key, t |-> t,
                                   allowed |-> r.allowed])
                 ELSE log
       /\ last' = [NoCall EXCEPT !.op = "Acquire", !.input = input, !.t = t,
                                 !.allowed = r.allowed, !.error = r.error,
                                 !.panic = r.panic]
    /\ now' = t
    /\ ncalls' = ncalls + 1
    /\ UNCHANGED <<config, env, limits, procs>>

Acquire(input, t) ==
    /\ AcquireBody(input, t)
    /\ UNCHANGED twin

\* One Status call, from entry to return; time.Now() reads t.
Status(key, t) ==
    /\ LET r == StatusWith(key, t, useRedis, redisUp, userCalls, zset,
                           expireAt, getLimitForKey(key)) IN
       /\ zset' = r.zset
       /\ expireAt' = r.expireAt
       /\ last' = [NoCall EXCEPT !.op = "Status",
                                 !.input = [kind |-> "string", key |-> key],
                                 !.t = t, !.tokens = r.tokens,
                                 !.source = r.source, !.limit = r.limit]
    /\ now' = t
    /\ UNCHANGED <<config, env, limits, userCalls, counters, log, ncalls, twin, procs>>

Next ==
    \/ \E input \in Inputs, t \in now..MaxTime : Acquire(input, t)
    \/ \E key \in Keys, t \in now..MaxTime : Status(key, t)

Spec == Init /\ [][Next]_vars

\* ------------------------------------------ two services, side by side
\* The service of the variables runs on the local store; twin is a second
\* service with the same limit, window and algorithm on the shared store.
\* Every call is made on both with the same timestamp.
InitPair ==
    /\ Init
    /\ useRedis = FALSE
    /\ algorithm = TokenBucket

TwinAcquire(tw, input, t) ==
    LET r == AcquireCall(input, t, TRUE, algorithm, EmptyMap,
                         tw.zset, tw.expireAt) IN
    [zset |-> r.zset, expireAt |-> r.expireAt,
     successfulAcquires |-> tw.successfulAcquires + r.succ,
     failedAcquires |-> tw.failedAcquires + r.fail,
     out |-> Append(tw.out, r.allowed)]

AcquirePair(key, t) ==
    /\ AcquireBody([kind |-> "string", key |-> key], t)
    /\ twin' = TwinAcquire(twin, [kind |-> "string", key |-> key], t)

NextPair == \E key \in Keys, t \in now..MaxTime : AcquirePair(key, t)

SpecPair == InitPair /\ [][NextPair]_vars

\* ------------------------------------- the whole service, one call at a time
\* The limits that SetLimit is called with: it accepts every int.
LimitValues == (0 - 1)..MaxLimit

\* Variant: the new limit becomes the default of every key.
StoreLimitEverywhere(lims, key, l) ==
    [k \in Keys \cup {key} \cup DOMAIN lims |-> l]

\* s.limits[key] = limit
StoreLimit(lims, key, l) ==
    [k \in DOMAIN lims \cup {key} |-> IF k = key THEN l ELSE lims[k]]

\* Service.SetLimit, from entry to return (the mutex is taken and released).
SetLimit(key, l) ==
    /\ mu = 0
    /\ limits' = StoreLimit(limits, key, l)
    /\ last' = [NoCall EXCEPT !.op = "SetLimit",
                              !.input = [kind |-> "string", key |-> key],
                              !.t = now, !.limit = l]
    /\ UNCHANGED <<config, env, store, counters, now, log, ncalls, twin, procs>>

\* Service.Metrics, from entry to return: the text carries both counters.
Metrics ==
    /\ mu = 0
    /\ last' = [NoCall EXCEPT !.op = "Metrics", !.t = now,
                              !.metrics = <<successfulAcquires, failedAcquires>>]
    /\ UNCHANGED <<config, env, limits, store, counters, now, log, ncalls, twin,
                   procs>>

\* The Redis server stops answering (crash, partition, timeout).
RedisDown ==
    /\ redisUp
    /\ redisUp' = FALSE
    /\ UNCHANGED <<config, mu, limits, store, counters, now, log, ncalls, last,
                   twin, procs>>

\* The Redis server answers again, with the data it had.
RedisRecover ==
    /\ ~redisUp
    /\ redisUp' = TRUE
    /\ UNCHANGED <<config, mu, limits, store, counters, now, log, ncalls, last,
                   twin, procs>>

NextService ==
    \/ \E input \in Inputs, t \in now..MaxServiceTime :
           ncalls < MaxServiceCalls /\ Acquire(input, t)
    \/ \E key \in Keys, t \in now..MaxServiceTime : Status(key, t)
    \/ \E key \in Keys, l \in LimitValues : SetLimit(key, l)
    \/ Metrics
    \/ RedisDown
    \/ RedisRecover

SpecService == Init /\ [][NextService]_vars

\* ------------------------------- the limit registry under concurrent calls
\* Goroutines call SetLimit, Status and Acquire on a local token-bucket
\* service.  SetLimit and getLimitForKey hold s.mu from entry to return; the
\* map write of SetLimit takes time, and a map read that overlaps a write is
\* a data race that can return anything.  Status and Acquire then use the
\* limit they looked up.  The clock stands still.
LimitKeys == Keys \cup {"k2"}

RECURSIVE OpsStarted(_)
OpsStarted(ps) ==
    IF ps = {} THEN 0
    ELSE LET p == CHOOSE q \in ps : TRUE IN
         procs[p].n + OpsStarted(ps \ {p})

\* Variant: Lock never waits.
MutexNeverBlocks(m) == TRUE

\* s.mu.Lock() returns once the mutex is free.
MutexFree(m) == m = 0

\* A goroutine enters SetLimit(key, l).
RegCallSet(p, key, l) ==
    /\ procs[p].pc = "idle"
    /\ OpsStarted(Procs) < MaxRegistryOps
    /\ procs' = [q \in Procs |->
                   IF q = p
                   THEN [procs[p] EXCEPT !.pc = "lock", !.op = "SetLimit",
                                         !.key = key, !.arg = l,
                                         !.n = procs[p].n + 1]
                   ELSE IF /\ procs[q].op # "SetLimit"
                           /\ procs[q].pc = "lock"
                           /\ procs[q].key = key
                        THEN [procs[q] EXCEPT !.seen = procs[q].seen \cup {l}]
                        ELSE procs[q]]
    /\ UNCHANGED <<config, env, limits, store, counters, now, log, ncalls, last,
                   twin>>

\* A goroutine enters Status(key) or acquireTokenBucket(key) and calls
\* getLimitForKey(key).
RegCallLookup(p, op, key) ==
    /\ procs[p].pc = "idle"
    /\ OpsStarted(Procs) < MaxRegistryOps
    /\ procs' = [procs EXCEPT ![p] =
           [procs[p] EXCEPT
               !.pc = "lock", !.op = op, !.key = key,
               !.n = procs[p].n + 1,
               !.seen = {getLimitForKey(key)} \cup
                        {procs[q].arg : q \in
                            {r \in Procs : /\ procs[r].op = "SetLimit"
                                           /\ procs[r].key = key
                                           /\ procs[r].pc \in
                                                {"lock", "writing"}}}]]
    /\ UNCHANGED <<config, env, limits, store, counters, now, log, ncalls, last,
                   twin>>

\* SetLimit: s.mu.Lock(), and the map write s.limits[key] = limit starts ...
RegSetBegin(p) ==
    /\ procs[p].pc = "lock"
    /\ procs[p].op = "SetLimit"
    /\ MutexFree(mu)
    /\ mu' = p
    /\ procs' = [procs EXCEPT ![p] = [procs[p] EXCEPT !.pc = "writing"]]
    /\ UNCHANGED <<config, redisUp, limits, store, counters, now, log, ncalls,
                   last, twin>>

\* ... the write completes, the deferred s.mu.Unlock() runs, SetLimit returns.
RegSetEnd(p) ==
    /\ procs[p].pc = "writing"
    /\ limits' = StoreLimit(limits, procs[p].key, procs[p].arg)
    /\ mu' = 0
    /\ procs' = [procs EXCEPT ![p] = [procs[p] EXCEPT !.pc = "idle"]]
    /\ last' = [NoCall EXCEPT !.op = "SetLimit",
                   !.input = [kind |-> "string", key |-> procs[p].key],
                   !.t = now, !.limit = procs[p].arg]
    /\ UNCHANGED <<config, redisUp, store, counters, now, log, ncalls, twin>>

\* The values a map read can produce: the entry or the default, or
\* anything when another goroutine is in the middle of a map write.
ReadOutcomes(key) ==
    IF \E q \in Procs : procs[q].pc = "writing"
    THEN 0..MaxLimit
    ELSE {getLimitForKey(key)}

\* getLimitForKey, from s.mu.Lock() to the deferred s.mu.Unlock():
\* if l, ok := s.limits[key]; ok { return l }; return s.limit
RegLookup(p) ==
    /\ procs[p].pc = "lock"
    /\ procs[p].op # "SetLimit"
    /\ MutexFree(mu)
    /\ \E v \in ReadOutcomes(procs[p].key) :
           procs' = [procs EXCEPT ![p] = [procs[p] EXCEPT !.pc = "use",
                                                         !.limit = v]]
    /\ UNCHANGED <<config, env, limits, store, counters, now, log, ncalls, last,
                   twin>>

\* The rest of Status, with the limit that was looked up.
RegStatus(p) ==
    /\ procs[p].pc = "use"
    /\ procs[p].op = "Status"
    /\ LET r == StatusWith(procs[p].key, now, useRedis, redisUp, userCalls,
                           zset, expireAt, procs[p].limit) IN
       /\ zset' = r.zset
       /\ expireAt' = r.expireAt
       /\ last' = [NoCall EXCEPT !.op = "Status",
                       !.input = [kind |-> "string", key |-> procs[p].key],
                       !.t = now, !.tokens = r.tokens, !.source = r.source,
                       !.limit = r.limit]
    /\ procs' = [procs EXCEPT ![p] = [procs[p] EXCEPT !.pc = "idle"]]
    /\ UNCHANGED <<config, env, limits, userCalls, counters, now, log, ncalls,
                   twin>>

\* The rest of acquireTokenBucket, with the limit that was looked up.
RegAcquire(p) ==
    /\ procs[p].pc = "use"
    /\ procs[p].op = "Acquire"
    /\ LET input == [kind |-> "string", key |-> procs[p].key]
           r == AcquireWith(input, now, useRedis, redisUp, algorithm,
                            userCalls, zset, expireAt, procs[p].limit) IN
       /\ userCalls' = r.userCalls
       /\ zset' = r.zset
       /\ expireAt' = r.expireAt
       /\ successfulAcquires' = successfulAcquires + r.succ
       /\ failedAcquires' = failedAcquires + r.fail
       /\ log' = Append(log, [key |-> procs[p].key, t |-> now,
                              allowed |-> r.allowed])
       /\ last' = [NoCall EXCEPT !.op = "Acquire", !.input = input, !.t = now,
                                 !.allowed = r.allowed, !.error = r.error,
                                 !.panic = r.panic]
    /\ procs' = [procs EXCEPT ![p] = [procs[p] EXCEPT !.pc = "idle"]]
    /\ ncalls' = ncalls + 1
    /\ UNCHANGED <<config, env, limits, now, twin>>

NextRegistry ==
    \/ \E p \in Procs, key \in LimitKeys, l \in 1..MaxLimit :
           RegCallSet(p, key, l)
    \/ \E p \in Procs, op \in {"Status", "Acquire"}, key \in Keys :
           RegCallLookup(p, op, key)
    \/ \E p \in Procs : RegSetBegin(p)
    \/ \E p \in Procs : RegSetEnd(p)
    \/ \E p \in Procs : RegLookup(p)
    \/ \E p \in Procs : RegStatus(p)
    \/ \E p \in Procs : RegAcquire(p)

InitRegistry ==
    /\ Init
    /\ useRedis = FALSE
    /\ algorithm = TokenBucket
    /\ window = TicksPerMicro

SpecRegistry == InitRegistry /\ [][NextRegistry]_vars

\* ------------------------- token bucket on a shared store that can fail
\* NewService found the server (the ping answered); later the server may
\* stop answering and come back.
InitShared ==
    /\ Init
    /\ useRedis = TRUE
    /\ algorithm = TokenBucket

NextOutage ==
    \/ \E input \in Inputs, t \in now..MaxTime :
           ncalls < MaxOutageCalls /\ Acquire(input, t)
    \/ \E key \in Keys, t \in now..MaxTime : Status(key, t)
    \/ RedisDown
    \/ RedisRecover

SpecOutage == InitShared /\ [][NextOutage]_vars

\* --------------------------------- concurrent Acquire, local token bucket
\* Each goroutine runs acquireTokenBucket once.  The shared accesses are
\* separate steps: LoadOrStore, Store, and the read and the write of the
\* unsynchronised counter increment.
InitConc ==
    /\ Init
    /\ useRedis = FALSE
    /\ algorithm = TokenBucket

\* now := time.Now(); limit := s.getLimitForKey(key)
Enter(p, key, t) ==
    /\ procs[p].pc = "idle"
    /\ procs' = [procs EXCEPT ![p] = [@ EXCEPT !.pc = "load", !.key = key,
                                               !.t = t,
                                               !.limit = getLimitForKey(key)]]
    /\ now' = t
    /\ UNCHANGED <<config, env, limits, store, counters, log, ncalls, last, twin>>

\* val, _ := s.userCalls.LoadOrStore(key, []time.Time{})
Load(p) ==
    /\ procs[p].pc = "load"
    /\ userCalls' = LoadOrStore(userCalls, procs[p].key)
    /\ procs' = [procs EXCEPT ![p] = [@ EXCEPT !.pc = "decide",
                                  !.calls = LoadOrStore(userCalls, procs[p].key)[procs[p].key]]]
    /\ UNCHANGED <<config, env, limits, zset, expireAt, counters, now, log, ncalls,
                   last, twin>>

\* The filter loop, the limit test and, when allowed, s.userCalls.Store.
Decide(p) ==
    /\ procs[p].pc = "decide"
    /\ LET d == DecideTokenBucket(procs[p].calls, procs[p].t, procs[p].limit,
                                  window) IN
       /\ userCalls' = IF d.stored
                       THEN StoreCalls(userCalls, procs[p].key, d.calls)
                       ELSE userCalls
       /\ procs' = [procs EXCEPT ![p] = [@ EXCEPT !.pc = "read",
                                                  !.allowed = d.allowed]]
    /\ UNCHANGED <<config, env, limits, zset, expireAt, counters, now, log, ncalls,
                   last, twin>>

\* s.successfulAcquires++ / s.failedAcquires++ : the read
CounterRead(p) ==
    /\ procs[p].pc = "read"
    /\ procs' = [procs EXCEPT ![p] = [@ EXCEPT !.pc = "write",
                     !.reg = IF procs[p].allowed THEN successfulAcquires
                                                 ELSE failedAcquires]]
    /\ UNCHANGED <<config, env, limits, store, counters, now, log, ncalls, last, twin>>

\* the write of the increment, and the return
CounterWrite(p) ==
    /\ procs[p].pc = "write"
    /\ successfulAcquires' = IF procs[p].allowed THEN procs[p].reg + 1
                                                  ELSE successfulAcquires
    /\ failedAcquires' = IF procs[p].allowed THEN failedAcquires
                                              ELSE procs[p].reg + 1
    /\ procs' = [procs EXCEPT ![p] = [@ EXCEPT !.pc = "done"]]
    /\ log' = Append(log, [key |-> procs[p].key, t |-> procs[p].t,
                           allowed |-> procs[p].allowed])
    /\ ncalls' = ncalls + 1
    /\ last' = [NoCall EXCEPT !.op = "Acquire",
                   !.input = [kind |-> "string", key |-> procs[p].key],
                   !.t = procs[p].t, !.allowed = procs[p].allowed,
                   !.error = IF procs[p].allowed THEN ""
                                                 ELSE "rate limit exceeded"]
    /\ UNCHANGED <<config, env, limits, store, now, twin>>

NextConc ==
    \/ \E p \in Procs, key \in Keys, t \in now..MaxConcTime : Enter(p, key, t)
    \/ \E p \in Procs : Load(p)
    \/ \E p \in Procs : Decide(p)
    \/ \E p \in Procs : CounterRead(p)
    \/ \E p \in Procs : CounterWrite(p)

SpecConc == InitConc /\ [][NextConc]_vars

\* ================================================================ properties
LocalTokenBucket == ~useRedis /\ algorithm = TokenBucket
SharedTokenBucket == useRedis /\ algorithm = TokenBucket

\* The calls for key k that were allowed, in order.
AllowedOf(k) ==
    LET Hit(e) == e.key = k /\ e.allowed IN SelectSeq(log, Hit)

\* Whenever limit + 1 calls for k were allowed, the last is at least one
\* window later than the first.
AtMostLimitPerWindow(k) ==
    LET a == AllowedOf(k) IN
    \A i \in 1..Len(a) :
        (i + getLimitForKey(k) <= Len(a)) =>
            a[i + getLimitForKey(k)].t - a[i].t >= window

\* The number of calls for key k allowed before position i of the log that
\* are still inside the window at time t.
AdmittedBefore(k, i, t) ==
    Cardinality({j \in 1..(i - 1) :
        log[j].key = k /\ log[j].allowed /\ t - log[j].t < window})

\* C1: local backend, token bucket: at most limit calls of one key are
\* allowed within any rolling interval of one window.
C1_LocalRollingWindow ==
    LocalTokenBucket => \A k \in Keys : AtMostLimitPerWindow(k)

C1_Witness ==
    /\ LocalTokenBucket
    /\ \E k \in Keys : Len(AllowedOf(k)) > getLimitForKey(k)

\* C3: local backend, token bucket: a call is allowed iff fewer than limit
\* previously allowed calls of the key are still inside the window; denied
\* calls do not count.
C3_LocalAllowedIff ==
    LocalTokenBucket =>
        \A i \in 1..Len(log) :
            log[i].allowed <=>
                AdmittedBefore(log[i].key, i, log[i].t) < getLimitForKey(log[i].key)

\* The instance of the claim: limit 2, calls at 0, a little later, inside
\* the window, and after both admitted calls left it.
C3_Witness ==
    /\ LocalTokenBucket
    /\ limit = 2
    /\ \E k \in Keys :
          LET Mine(e) == e.key = k IN
          SelectSeq(log, Mine) =
              << [key |-> k, t |-> 0, allowed |-> TRUE],
                 [key |-> k, t |-> 1, allowed |-> TRUE],
                 [key |-> k, t |-> window - 1, allowed |-> FALSE],
                 [key |-> k, t |-> window + 1, allowed |-> TRUE] >>

\* C8: an Acquire without a usable key is denied with the missing-key
\* reason, leaves both stores alone and adds one to failedAcquires.
C8_MissingKey ==
    [][(ncalls' = ncalls + 1 /\ ~ValidKey(last'.input)) =>
          /\ last'.op = "Acquire"
          /\ last'.allowed = FALSE
          /\ last'.error = "missing or invalid key"
          /\ userCalls' = userCalls
          /\ zset' = zset
          /\ expireAt' = expireAt
          /\ failedAcquires' = failedAcquires + 1
          /\ successfulAcquires' = successfulAcquires]_vars

C8_Witness ==
    /\ last.op = "Acquire"
    /\ ~ValidKey(last.input)
    /\ log # <<>>
    /\ failedAcquires >= 1

\* C9: local backend, token bucket: Status reports limit - k tokens, and 0
\* when k >= limit, k being the allowed calls still inside the window.
C9_LocalStatusTokens ==
    (LocalTokenBucket /\ last.op = "Status") =>
        LET k == AdmittedBefore(last.input.key, Len(log) + 1, last.t)
            lim == getLimitForKey(last.input.key) IN
        /\ last.tokens = IF k < lim THEN lim - k ELSE 0
        /\ last.tokens >= 0

C9_Witness ==
    /\ LocalTokenBucket
    /\ last.op = "Status"
    /\ \E i \in 1..Len(log) : log[i].key = last.input.key /\ ~log[i].allowed
    /\ LET k == AdmittedBefore(last.input.key, Len(log) + 1, last.t) IN
       0 < k /\ k < getLimitForKey(last.input.key)

\* C2: shared backend, token bucket: at most limit calls of one key are
\* allowed within any rolling interval of one window, also when calls carry
\* the same timestamp.
C2_SharedRollingWindow ==
    SharedTokenBucket => \A k \in Keys : AtMostLimitPerWindow(k)

\* The position of the most recent allowed call of log[i].key before i, or 0.
LastAllowedBefore(i) ==
    LET prior == {j \in 1..(i - 1) : log[j].key = log[i].key /\ log[j].allowed} IN
    IF prior = {} THEN 0 ELSE CHOOSE j \in prior : \A h \in prior : h <= j

\* C5: leaky bucket: a call issued less than window / limit (the integer
\* quotient) after the most recent allowed call of its key is denied, so two
\* consecutive allowed calls are at least that far apart.
C5_LeakySpacing ==
    algorithm = LeakyBucket =>
        \A i \in 1..Len(log) :
            LET j == LastAllowedBefore(i)
                interval == GoDiv(window, getLimitForKey(log[i].key)) IN
            (j # 0 /\ log[i].t - log[j].t < interval) => ~log[i].allowed

C5_Witness ==
    /\ algorithm = LeakyBucket
    /\ \E i \in 1..Len(log) :
          /\ LastAllowedBefore(i) # 0
          /\ ~log[i].allowed
    /\ \E i \in 1..Len(log) :
          /\ LastAllowedBefore(i) # 0
          /\ log[i].allowed
          /\ log[i].t - log[LastAllowedBefore(i)].t
                 = GoDiv(window, getLimitForKey(log[i].key))

\* C6: leaky bucket: at most limit calls of one key are allowed within any
\* rolling interval of one window, whatever the limit and the window.
C6_LeakyRollingWindow ==
    algorithm = LeakyBucket => \A k \in Keys : AtMostLimitPerWindow(k)

\* C10: shared backend, token bucket: Status reports limit - k tokens, and 0
\* when k >= limit, k being the allowed calls still inside the window.
C10_SharedStatusTokens ==
    (SharedTokenBucket /\ last.op = "Status") =>
        LET k == AdmittedBefore(last.input.key, Len(log) + 1, last.t)
            lim == getLimitForKey(last.input.key) IN
        last.tokens = IF k < lim THEN lim - k ELSE 0

\* C4: the local and the shared backend give the same outcome, call by
\* call, on the same sequence of token-bucket calls.
C4_BackendsAgree ==
    \A i \in 1..Len(log) : log[i].allowed = twin.out[i]

\* C7: local backend, token bucket: concurrent calls for one key inside one
\* window never return allowed more than limit times.
C7_ConcurrentAtMostLimit ==
    now < window =>
        \A k \in Keys : Len(AllowedOf(k)) <= getLimitForKey(k)

\* C11: every Acquire call adds one to exactly one counter: the successful
\* counter counts the calls that returned allowed, the failed counter the
\* others, whatever the key, the backend and the algorithm selector.
C11_EveryCallCounted ==
    [][(ncalls' = ncalls + 1) =>
          /\ successfulAcquires' =
                 successfulAcquires + (IF last'.allowed THEN 1 ELSE 0)
          /\ failedAcquires' =
                 failedAcquires + (IF last'.allowed THEN 0 ELSE 1)]_vars

\* C12: under concurrent Acquire calls no counter ever decreases and, once
\* every call has returned, the counters add up to the number of calls.
C12_NoLostIncrement ==
    [][/\ successfulAcquires' >= successfulAcquires
       /\ failedAcquires' >= failedAcquires
       /\ (\A p \in Procs : procs'[p].pc = "done") =>
              successfulAcquires' + failedAcquires' = ncalls']_vars

\* C13: fail closed.  On the shared backend, a token-bucket Acquire whose
\* transaction fails returns allowed=false with the error "redis error", adds
\* one to failedAcquires only, leaves the local call history untouched, and
\* the service stays on the shared backend (no request, this one or a later
\* one, ever creates a local history).
C13_FailClosed ==
    [][/\ (/\ ncalls' = ncalls + 1
           /\ ValidKey(last'.input)
           /\ ~redisUp) =>
              /\ ~last'.allowed
              /\ ~last'.panic
              /\ last'.error = "redis error"
              /\ failedAcquires' = failedAcquires + 1
              /\ successfulAcquires' = successfulAcquires
              /\ userCalls' = userCalls
              /\ zset' = zset
       /\ useRedis' = useRedis
       /\ userCalls' = EmptyMap]_vars

\* The transaction of the first call failed, and after the server came back
\* the next call was decided, and recorded, on the shared store.
C13_Witness ==
    /\ Len(log) = 2
    /\ ~log[1].allowed /\ log[2].allowed
    /\ last.op = "Acquire"
    /\ failedAcquires = 1 /\ successfulAcquires = 1
    /\ ZCard(zset["k1"]) = 1

\* C14: Acquire always terminates by returning a decision, never with a
\* panic, whatever limit SetLimit stored for the key (0 and negative
\* values included), for either algorithm and either backend.
C14_NeverPanics ==
    last.op = "Acquire" => ~last.panic

\* C15: once SetLimit has stored a limit <= 0 for a key, no Acquire for that
\* key is allowed, under either algorithm and either backend, for as long as
\* that limit stands.
C15_NonPositiveLimitDenies ==
    [][(/\ ncalls' = ncalls + 1
        /\ ValidKey(last'.input)
        /\ last'.input.key \in DOMAIN limits
        /\ limits[last'.input.key] <= 0) => ~last'.allowed]_vars

\* C16: on the shared backend, right after the transaction of any Acquire
\* call on a key with limit L the key's sorted set holds at most L + 1
\* entries.
C16_SharedSetAtMostLimitPlusOne ==
    (SharedTokenBucket /\ last.op = "Acquire" /\ ValidKey(last.input)) =>
        ZCard(zset[last.input.key]) <= getLimitForKey(last.input.key) + 1

\* C18: the backend is chosen at construction (shared iff the server answered
\* the ping) and no call of Acquire, Status, SetLimit or Metrics and no
\* failure or recovery of the server changes it afterwards; a service that
\* started on the local backend never touches the shared store.
C18_BackendFixed ==
    /\ useRedis = redisUp
    /\ [][/\ useRedis' = useRedis
          /\ ~useRedis => (zset' = zset /\ expireAt' = expireAt)]_vars

\* A service that started on the local backend served a token-bucket call
\* from its local history while the server was reachable again.
C18_Witness ==
    /\ ~useRedis /\ redisUp
    /\ algorithm = TokenBucket
    /\ last.op = "Acquire" /\ last.allowed
    /\ "k1" \in DOMAIN userCalls
    /\ zset["k1"] = {}

\* C19: Status is read-only.  A Status call leaves the local histories, the
\* limit registry and both counters as they were, and from the shared store it
\* removes nothing but entries that have already left the window (entries at
\* least one window older than the call).  Stated for the calls made at
\* least one window after time 0, whose window start is not negative.
C19_StatusReadOnly ==
    [][(last'.op = "Status" /\ last'.t >= window) =>
          /\ userCalls' = userCalls
          /\ limits' = limits /\ limit' = limit
          /\ successfulAcquires' = successfulAcquires
          /\ failedAcquires' = failedAcquires
          /\ \A k \in Keys :
                /\ zset'[k] \subseteq zset[k]
                /\ \A e \in zset[k] \ zset'[k] :
                       last'.t - e.score >= window]_vars

\* C20: local token bucket with a limit L >= 1 that is never lowered: in
\* every state, whatever the interleaving of concurrent Acquire calls, the
\* history stored for a key holds at most L timestamps.
C20_LocalHistoryAtMostLimit ==
    \A k \in DOMAIN userCalls : Len(userCalls[k]) <= getLimitForKey(k)

\* Two concurrent calls were both allowed past the limit (each stored its own
\* copy of the history), another call entered later, and the stored history
\* is full.
C20_Witness ==
    /\ \A p \in Procs : procs[p].pc = "done"
    /\ Len(AllowedOf("k1")) > limit
    /\ \E p, q \in Procs : procs[p].t # procs[q].t
    /\ Len(userCalls["k1"]) = limit

\* The number of calls still in the window of a call made at time t.
InWindow(k, t) == Len(RecentCalls(LoadCalls(userCalls, k), t, window))

\* C17: the limit registry.  Before any SetLimit every key has the default
\* limit; a completed SetLimit(key, l) makes l the limit of key and changes
\* neither the limit of another key nor the default; nothing else changes a
\* limit; a lookup that runs concurrently with SetLimit calls returns the
\* value it found at its start or the value of one of those calls; and Status
\* and Acquire use the value their lookup returned.
C17_LimitRegistry ==
    /\ \A k \in LimitKeys : getLimitForKey(k) = limit
    /\ [](\A p \in Procs :
             procs[p].pc = "use" => procs[p].limit \in procs[p].seen)
    /\ [][/\ limit' = limit
          /\ \A k \in LimitKeys :
                \/ getLimitForKey(k)' = getLimitForKey(k)
                \/ \E p \in Procs :
                      /\ procs[p].pc = "writing" /\ procs'[p].pc = "idle"
                      /\ procs[p].key = k
          /\ \A p \in Procs :
                (procs[p].pc = "writing" /\ procs'[p].pc = "idle") =>
                    getLimitForKey(procs[p].key)' = procs[p].arg
          /\ \A p \in Procs :
                (procs[p].pc = "use" /\ procs'[p].pc = "idle") =>
                    IF procs[p].op = "Status"
                    THEN /\ last'.limit = procs[p].limit
                         /\ last'.tokens =
                              IF procs[p].limit < InWindow(procs[p].key, last'.t)
                              THEN 0
                              ELSE procs[p].limit
                                     - InWindow(procs[p].key, last'.t)
                    ELSE last'.allowed =
                           (InWindow(procs[p].key, last'.t) < procs[p].limit)
         ]_vars

\* A lookup for k1 that overlapped a SetLimit call for k1 returned the value
\* of that call, which differs from the default.
C17_Witness ==
    /\ "k1" \in DOMAIN limits
    /\ limits["k1"] # limit
    /\ \E p \in Procs :
          /\ procs[p].pc = "use"
          /\ procs[p].limit = limits["k1"]
          /\ procs[p].seen = {limit, limits["k1"]}

\* C21: on the shared backend every Acquire transaction adds one new entry
\* to the key's sorted set: the member it inserts is not a member already in
\* the set, also when an earlier call carried the same timestamp.
C21_NewMemberPerCall ==
    [][(/\ ncalls' = ncalls + 1
        /\ ValidKey(last'.input)
        /\ SharedTokenBucket) =>
           FormatFloat(last'.t) \notin
               {e.member : e \in LiveSet(zset, expireAt, last'.input.key,
                                         last'.t)}]_vars

\* C24: while the shared backend is active every Status response carries
\* source = redis; a failed read of the shared store is never replaced by a
\* tokens_left computed from the local history.
C24_StatusFromSharedStoreOnly ==
    (useRedis /\ last.op = "Status") => last.source = "redis"

\* C23: for every backend and algorithm, with a limit L >= 1, a Status call
\* for key k made right after an Acquire for k returned allowed, with no time
\* passing in between, reports tokens_left <= L - 1.
C23_StatusSeesAcquire ==
    [][(/\ last.op = "Acquire" /\ last.allowed
        /\ last'.op = "Status"
        /\ last'.input.key = last.input.key
        /\ last'.t = last.t
        /\ getLimitForKey(last.input.key) >= 1) =>
           last'.tokens <= getLimitForKey(last.input.key) - 1]_vars

\* The goroutines that have taken their decision.
Decided == {p \in Procs : procs[p].pc \in {"read", "write", "done"}}

\* C22: local token bucket, N concurrent Acquire calls on one key with limit
\* L <= N, whatever the interleaving of the loads and stores: a call is
\* denied only when L calls admitted before it are in its window, and once
\* all N calls, all inside one window, have returned at least L were allowed.
C22_ConcurrentAtLeastLimit ==
    /\ \A p \in Decided :
          ~procs[p].allowed =>
              Cardinality({q \in Decided :
                              /\ procs[q].allowed
                              /\ procs[p].t - procs[q].t < window}) >= limit
    /\ (/\ \A p \in Procs : procs[p].pc = "done"
        /\ limit <= NumProcs
        /\ now < window) =>
           Len(AllowedOf("k1")) >= limit

\* All calls have returned inside one window, one of them denied, and the
\* allowed ones are exactly the limit.
C22_Witness ==
    /\ \A p \in Procs : procs[p].pc = "done"
    /\ now < window
    /\ \E p \in Procs : ~procs[p].allowed
    /\ Len(AllowedOf("k1")) = limit

====
